---- MODULE Spec2Model ----
(***************************************************************************)
(* google-fzf: the content script's search session (ContentSearchManager  *)
(* and its chrome.runtime.onMessage listener), the highlighter's class     *)
(* state, the SimilaritySearch model's load/dispose life cycle and the     *)
(* token-bucket RateLimiter.                                               *)
(*                                                                         *)
(* JavaScript runs every task to completion: a message handler or a        *)
(* resolved network load starts a chain of continuations (microtasks) that *)
(* runs until the chain suspends on a real event (the embeddings load) or  *)
(* ends.  `running` names the search whose chain is executing; handlers    *)
(* and load completions are taken only when running = 0.  Every `await` of *)
(* search() is still a separate step, so the states in which search() is   *)
(* suspended at an await are states of the model.                          *)
(***************************************************************************)
EXTENDS Integers, Sequences, FiniteSets, TLC

\* ------------------------------------------------------------------ bounds
NumChunks == 2
NumSlots == 2
MaxCalls == 12
MaxTexts == 1002
MaxUnits == 4
MaxMsgs == 4
MaxRequests == 5

\* ------------------------------------------------------- program constants
MaxTokens == 10
PerMinutes == 1
RefillTime == PerMinutes * 60 * 1000
MinPatternLen == 2
MaxPatternLen == 100
CacheCap == 1000
SubChunkWords == 50
MinTokenLen == 2
ChunkWords == 20

Slots == 1..NumSlots
Chunks == 1..NumChunks
Modes == {"semantic", "exact", "fuzzy"}

\* Queries a START_SEARCH message carries, as sequences of characters.
Queries == { <<"a", "b">>, <<"<", "a", ">">>, <<"a">> }
NoQuery == <<>>

\* Instants Date.now() is sampled at in the rate limiter's own specification.
TimeSet == {0, 30000, 60000, 61000, 121000}

\* Time passed since the limiter's last refill when search() calls tryAcquire().
\* The session's specification measures time from the last refill (refill()
\* reads only the difference and then sets lastRefill to the instant).
ElapsedSet == {0, 60000}

Min(a, b) == IF a < b THEN a ELSE b

\* JavaScript's % takes the sign of the dividend.
JsRem(a, n) == IF a >= 0 THEN a % n ELSE 0 - ((0 - a) % n)

\* ------------------------------------------------------------ sanitizer.js
RECURSIVE TrimStart(_)
TrimStart(str) ==
    IF str # <<>> /\ Head(str) = " " THEN TrimStart(Tail(str)) ELSE str

RECURSIVE TrimEnd(_)
TrimEnd(str) ==
    IF str # <<>> /\ str[Len(str)] = " "
    THEN TrimEnd(SubSeq(str, 1, Len(str) - 1))
    ELSE str

Trim(str) == TrimEnd(TrimStart(str))

NotAngle(c) == c \notin {"<", ">"}

sanitizeInput(input) == Trim(SelectSeq(input, NotAngle))

\* "ok", or the message of the Error validateSearchPattern throws.
validateSearchPattern(pattern) ==
    IF Len(pattern) > MaxPatternLen THEN "Search pattern too long"
    ELSE IF Len(pattern) < MinPatternLen THEN "Search pattern too short"
    ELSE "ok"

\* popup.js performSearch: the popup sends START_SEARCH only for a query whose
\* trimmed form is non-empty and at least 2 characters long; the query is sent
\* as typed.
PopupSends(q) == Trim(q) # <<>> /\ ~(Len(Trim(q)) < MinPatternLen)

\* ---------------------------------------------------------- rateLimiter.js
RefillTokens_Unclamped(tok, timePassed) ==
    tok + (timePassed \div RefillTime) * MaxTokens

\* refill(): the new token count, given the time passed since lastRefill.
RefillTokens(tok, timePassed) ==
    Min(MaxTokens, tok + (timePassed \div RefillTime) * MaxTokens)

\* A variant of TryAcquire whose refill() moves lastRefill only when it adds
\* tokens.
TryAcquire_LazyStamp(tok, last, t) ==
    LET filled == RefillTokens(tok, t - last)
        stamp == IF t - last >= RefillTime THEN t ELSE last
    IN  IF filled > 0
        THEN [tokens |-> filled - 1, lastRefill |-> stamp, ok |-> TRUE]
        ELSE [tokens |-> filled, lastRefill |-> stamp, ok |-> FALSE]

\* tryAcquire() at instant t: the new limiter fields and the value returned.
TryAcquire(tok, last, t) ==
    LET filled == RefillTokens(tok, t - last)
    IN  IF filled > 0
        THEN [tokens |-> filled - 1, lastRefill |-> t, ok |-> TRUE]
        ELSE [tokens |-> filled, lastRefill |-> t, ok |-> FALSE]

\* localPdfData = null (background.js line 119).
NoData == <<-1>>

RateLimitError == "Rate limit exceeded. Please wait."
LoadError == "Failed to fetch embeddings"
ContextError == "Extension context invalidated."

VARIABLES
    \* RateLimiter
    tokens, lastRefill, now,
    \* ContentSearchManager
    currentMatches, currentMatchIndex, isSearching, mgrInitialized,
    highlightElements,
    \* SimilaritySearch
    modelInitialized,
    \* document: the text units whose element carries the highlight class, and
    \* the unit a debounced scrollToMatch call is pending for (0: none)
    hl, scrollPending,
    \* one START_SEARCH request per slot
    pc, query, mode, pos, adm, result, replies, sent,
    \* event loop; whether the extension context the script was injected by is
    \* still valid (it is invalidated when the extension is reloaded or updated)
    running, extPc, ctxValid,
    \* history: the session started last, the searches cancelled mid-run, the
    \* units each search highlighted, the last navigation (operation and index
    \* before it), the last sendResponse of a search, the limiter's calls
    \* and the MATCH_UPDATE messages the handler just run has sent
    latest, cancelled, appliedBy, lastNav, lastResp, rlLog, matchUpdates,
    \* history: the searches during whose wait in initialize() (line 145) a
    \* CANCEL_SEARCH was handled
    earlyCancel,
    \* SimilaritySearch.cache: the Map from texts to their cached embeddings; the
    \* number of distinct texts embedded since the cache was last disposed; the
    \* last getTextEmbedding call, [text, ret, engine]
    cache, inserted, lastGet,
    \* SimilaritySearch on its own: "new" (wordToIndex and embeddings are null),
    \* "ready" (both loaded) or "disposed" (the embeddings tensor is disposed)
    engine,
    \* the last findSimilar call: its arguments and what it returned
    lastFind,
    \* a page on its own: its text units in document order (spans of a PDF text
    \* layer, or the text nodes of the body) and the last search run on it
    pageDoc, pageRun,
    \* the search worker on its own: whether its globals wordToIndex and
    \* embeddings are set; the INIT messages whose fetch is outstanding; the
    \* messages received with the replies posted for each
    wordToIndex, wEmbeddings, wInbox, wLog,
    \* the popup with the content script behind its message channels: the
    \* popup's counters [currentIndex, totalMatches]; the requests sent by the
    \* popup and not yet delivered; the responses and runtime messages sent by
    \* the content script and not yet delivered
    popup, toContent, toPopup,
    \* the background script on its own: localPdfData, and the SET_ / GET_
    \* LOCAL_PDF_DATA requests handled so far with the response to each
    localPdfData, bgLog,
    \* the content script's onMessage listener on its own: the requests
    \* delivered so far, each with whether its handler still awaits search()
    \* and the sendResponse calls made for it
    lsLog

limiterVars == <<tokens, lastRefill, now>>
sessionVars == <<currentMatches, currentMatchIndex, isSearching, highlightElements>>
domVars == <<hl, scrollPending>>
modelVars == <<mgrInitialized, modelInitialized>>
slotVars == <<pc, query, mode, pos, adm, result, replies, sent>>
histVars == <<latest, cancelled, appliedBy>>

vars == <<tokens, lastRefill, now, currentMatches, currentMatchIndex, isSearching,
          mgrInitialized, highlightElements, modelInitialized, hl,
          scrollPending, pc, query, mode, pos, adm, result, replies, sent, running,
          extPc, latest, cancelled, appliedBy, lastNav, lastResp, rlLog,
          ctxValid, matchUpdates, earlyCancel, cache, inserted, lastGet, lastFind, engine,
          pageDoc, pageRun, wordToIndex, wEmbeddings, wInbox, wLog,
          popup, toContent, toPopup, localPdfData, bgLog,
          lsLog>>

cacheVars == <<cache, inserted, lastGet, lastFind, engine>>

\* The state of the components specified on their own, further below.
pageVars == <<pageDoc, pageRun>>
workerVars == <<wordToIndex, wEmbeddings, wInbox, wLog>>
popupVars == <<popup, toContent, toPopup>>
bgVars == <<localPdfData, bgLog>>
otherVars == <<cacheVars, pageVars, workerVars, popupVars, bgVars, lsLog>>

NoResult == [success |-> FALSE, error |-> "none", matchCount |-> 0,
             currentIndex |-> -1, totalMatches |-> 0]

\* The state after the content script has been evaluated: the manager is
\* constructed and initializeExtension() is suspended in the model's load.
Init ==
    /\ tokens = MaxTokens
    /\ lastRefill = 0
    /\ now = 0
    /\ currentMatches = <<>>
    /\ currentMatchIndex = -1
    /\ isSearching = FALSE
    /\ mgrInitialized = FALSE
    /\ highlightElements = {}
    /\ modelInitialized = FALSE
    /\ hl = {}
    /\ scrollPending = 0
    /\ pc = [s \in Slots |-> "idle"]
    /\ query = [s \in Slots |-> NoQuery]
    /\ mode = [s \in Slots |-> "semantic"]
    /\ pos = [s \in Slots |-> 0]
    /\ adm = [s \in Slots |-> "none"]
    /\ result = [s \in Slots |-> NoResult]
    /\ replies = [s \in Slots |-> 0]
    /\ sent = [s \in Slots |-> 0]
    /\ running = 0
    /\ extPc = "loading"
    /\ ctxValid = TRUE
    /\ cache = <<>>
    /\ engine = "new"
    /\ inserted = 0
    /\ lastGet = <<>>
    /\ lastFind = <<>>
    /\ pageDoc = [pdf |-> FALSE, units |-> <<>>]
    /\ pageRun = <<>>
    /\ wordToIndex = FALSE
    /\ wEmbeddings = FALSE
    /\ wInbox = {}
    /\ wLog = <<>>
    /\ popup = [currentIndex |-> 0, totalMatches |-> 0]
    /\ toContent = <<>>
    /\ toPopup = <<>>
    /\ localPdfData = NoData
    /\ bgLog = <<>>
    /\ lsLog = <<>>
    /\ matchUpdates = <<>>
    /\ latest = 0
    /\ cancelled = [s \in Slots |-> FALSE]
    /\ earlyCancel = {}
    /\ appliedBy = [s \in Slots |-> {}]
    /\ lastNav = <<>>
    /\ lastResp = <<>>
    /\ rlLog = <<>>

\* ------------------------------------------------------------ highlighter.js
\* highlight(node): the unit's element carries the class afterwards.
highlight(h, unit) == h \cup {unit}

\* clearHighlights(): no element carries the class afterwards.
clearHighlights(h) == {}

\* The debounced scrollToMatch(nodes, 0), when its timer fires: every element
\* of the match that lacks the highlight class gets it.
scrollToMatch(h, unit) == h \cup {unit}

\* ---------------------------------------------------------------- content.js
\* A match: the chunk, with whether the search that pushed it was the session
\* started last (history, not program state).
Match(c, s) == [chunk |-> c, fresh |-> (latest = s)]

RECURSIVE PushAll(_, _, _, _)
\* The chunks of R from chunk c on, pushed in document order by search s.
PushAll(m, c, R, s) ==
    IF c > NumChunks THEN m
    ELSE PushAll(IF c \in R THEN Append(m, Match(c, s)) ELSE m, c + 1, R, s)

\* A variant of PrevIndex without the + n.
PrevIndex_NoWrap(i, n) == JsRem(i - 1, n)

\* nextMatch / previousMatch: the new index for n > 0 matches.
NextIndex(i, n) == JsRem(i + 1, n)
PrevIndex(i, n) == JsRem(n + i - 1, n)

\* A variant of NavUpdates that notifies for an empty match list as well.
NavUpdates_Always(m, i) ==
    <<[type |-> "MATCH_UPDATE", currentIndex |-> i, totalMatches |-> Len(m)]>>

\* nextMatch / previousMatch: the MATCH_UPDATE messages sent for match list m
\* once the index is i (none after the early return of line 289 / 304).
NavUpdates(m, i) ==
    IF Len(m) = 0 THEN <<>>
    ELSE <<[type |-> "MATCH_UPDATE", currentIndex |-> i, totalMatches |-> Len(m)]>>

\* A variant of IndexAfterLoop that leaves the index as it is.
IndexAfterLoop_Unset(m, i) == i

\* The index after the chunk loop (lines 218-225).
IndexAfterLoop(m, i) == IF Len(m) > 0 THEN 0 ELSE i

\* scrollToCurrentMatch(): the unit the debounced scroll is (re)armed for.
ScrollTarget(m, i, pending) ==
    IF i >= 0 /\ Len(m) > 0 THEN m[i + 1].chunk ELSE pending

Failure(msg) == [success |-> FALSE, error |-> msg, matchCount |-> 0,
                 currentIndex |-> -1, totalMatches |-> 0]
\* A variant of Success that reports the first match as the current one.
Success_FirstIndex(m, i) == [success |-> TRUE, error |-> "none", matchCount |-> Len(m),
                             currentIndex |-> 0, totalMatches |-> Len(m)]
Success(m, i) == [success |-> TRUE, error |-> "none", matchCount |-> Len(m),
                  currentIndex |-> i, totalMatches |-> Len(m)]

\* search(), line 146: tryAcquire() runs synchronously up to its await, e ms
\* after the limiter's last refill.  refill() then moves lastRefill to the
\* instant of the call; this specification keeps its clock's origin at the last
\* refill, so lastRefill and now stay as they are.
Acquire(s) ==
    \E e \in ElapsedSet :
    LET r == TryAcquire(tokens, lastRefill, lastRefill + e)
    IN  /\ tokens' = r.tokens
        /\ adm' = [adm EXCEPT ![s] = IF r.ok THEN "granted" ELSE "denied"]
        /\ pc' = [pc EXCEPT ![s] = "admit"]

\* search(), lines 218-244, once the chunk loop has ended with matches m and
\* highlights h: index, scroll, SEARCH_PROGRESS, the value returned, finally.
PostLoop(s, m, h) ==
    LET i == IndexAfterLoop(m, currentMatchIndex)
    IN  /\ currentMatches' = m
        /\ hl' = h
        /\ currentMatchIndex' = i
        /\ scrollPending' = IF Len(m) > 0 THEN ScrollTarget(m, i, scrollPending)
                            ELSE scrollPending
        /\ isSearching' = FALSE
        /\ IF ctxValid
           THEN /\ sent' = [sent EXCEPT ![s] = @ + 1]
                /\ result' = [result EXCEPT ![s] = Success(m, i)]
                /\ pc' = [pc EXCEPT ![s] = "returned"]
           \* chrome.runtime.sendMessage (line 227) throws in an invalidated
           \* context: catch rethrows, finally runs
           ELSE /\ sent' = sent
                /\ result' = [result EXCEPT ![s] = Failure(ContextError)]
                /\ pc' = [pc EXCEPT ![s] = "rejected"]

\* A variant of LoopHead whose findSimilar goes on to the lookups without
\* awaiting initialize().
LoopHead_NoReload(s, c, m, h) ==
    IF c > NumChunks \/ ~isSearching
    THEN /\ PostLoop(s, m, h)
         /\ UNCHANGED <<pos, running>>
    ELSE /\ currentMatches' = m
         /\ hl' = h
         /\ pos' = [pos EXCEPT ![s] = c]
         /\ pc' = [pc EXCEPT ![s] = "sim"]
         /\ running' = s
         /\ UNCHANGED <<currentMatchIndex, scrollPending, sent, result, isSearching>>

\* The head of the semantic loop for chunk c (lines 179-180, 202): leave the
\* loop, or call findSimilar, whose initialize() returns at once or loads.
LoopHead(s, c, m, h) ==
    IF c > NumChunks \/ ~isSearching
    THEN /\ PostLoop(s, m, h)
         /\ UNCHANGED <<pos, running>>
    ELSE /\ currentMatches' = m
         /\ hl' = h
         /\ pos' = [pos EXCEPT ![s] = c]
         /\ pc' = [pc EXCEPT ![s] = IF modelInitialized THEN "sim" ELSE "sim_load"]
         /\ running' = IF modelInitialized THEN s ELSE 0
         /\ UNCHANGED <<currentMatchIndex, scrollPending, sent, result, isSearching>>

\* START_SEARCH is delivered: the listener calls search(q, m), which runs up to
\* its first await (line 145 when the manager is not initialized, else 146).
RecvStartSearch(s, q, m) ==
    /\ lastNav' = <<>>
    /\ matchUpdates' = <<>>
    /\ UNCHANGED <<ctxValid, earlyCancel, otherVars>>
    /\ lastResp' = <<>>
    /\ running = 0
    /\ ctxValid
    /\ PopupSends(q)
    /\ pc[s] = "idle"
    /\ \A t \in Slots : t < s => pc[t] # "idle"
    /\ query' = [query EXCEPT ![s] = q]
    /\ mode' = [mode EXCEPT ![s] = m]
    /\ replies' = [replies EXCEPT ![s] = 0]
    /\ IF mgrInitialized
       THEN /\ Acquire(s)
            /\ running' = s
       ELSE /\ pc' = [pc EXCEPT ![s] = IF modelInitialized THEN "init_wait" ELSE "init_load"]
            /\ running' = IF modelInitialized THEN s ELSE 0
            /\ UNCHANGED <<tokens, adm>>
    /\ UNCHANGED <<lastRefill, now, sessionVars, modelVars, domVars, pos, result, sent, extPc,
                   histVars, rlLog>>

\* The load of embeddings.json a search is suspended in resolves or fails
\* (SimilaritySearch.initialize, lines 57-80).
LoadDone(s, ok) ==
    /\ lastNav' = <<>>
    /\ matchUpdates' = <<>>
    /\ UNCHANGED <<ctxValid, earlyCancel, otherVars>>
    /\ lastResp' = <<>>
    /\ running = 0
    /\ pc[s] \in {"init_load", "sim_load"}
    /\ running' = s
    /\ IF ok
       THEN /\ modelInitialized' = TRUE
            /\ pc' = [pc EXCEPT ![s] = IF pc[s] = "init_load" THEN "init_wait" ELSE "sim"]
            /\ UNCHANGED <<result, isSearching>>
       ELSE /\ pc' = [pc EXCEPT ![s] = "rejected"]
            /\ result' = [result EXCEPT ![s] = Failure(LoadError)]
            \* inside the try block the finally clause runs; line 145 is outside it
            /\ isSearching' = IF pc[s] = "sim_load" THEN FALSE ELSE isSearching
            /\ UNCHANGED modelInitialized
    /\ UNCHANGED <<limiterVars, currentMatches, currentMatchIndex, highlightElements,
                   mgrInitialized, domVars, query, mode, pos, adm, replies, sent, extPc,
                   histVars, rlLog>>

\* ContentSearchManager.initialize() resumes after the model's initialize():
\* isInitialized = true, and search() goes on to tryAcquire().
InitDone(s) ==
    /\ lastNav' = <<>>
    /\ matchUpdates' = <<>>
    /\ UNCHANGED <<ctxValid, earlyCancel, otherVars>>
    /\ lastResp' = <<>>
    /\ running = s
    /\ pc[s] = "init_wait"
    /\ mgrInitialized' = TRUE
    /\ Acquire(s)
    /\ UNCHANGED <<lastRefill, now, sessionVars, modelInitialized, domVars, query, mode, pos,
                   result, replies, sent, running, extPc, histVars, rlLog>>

\* A variant of Denied that clears the session before the admission check.
Denied_ClearsFirst(s) ==
    /\ pc' = [pc EXCEPT ![s] = "rejected"]
    /\ result' = [result EXCEPT ![s] = Failure(RateLimitError)]
    /\ hl' = clearHighlights(hl)
    /\ appliedBy' = [t \in Slots |-> {}]
    /\ currentMatches' = <<>>
    /\ currentMatchIndex' = -1
    /\ highlightElements' = {}
    /\ UNCHANGED <<isSearching, latest>>

\* search(), lines 146-148: tryAcquire() returned false; the Error is thrown
\* before the try block, so neither catch nor finally of search() runs.
Denied(s) ==
    /\ pc' = [pc EXCEPT ![s] = "rejected"]
    /\ result' = [result EXCEPT ![s] = Failure(RateLimitError)]
    /\ UNCHANGED <<sessionVars, hl, latest, appliedBy>>

\* search() resumes after tryAcquire(): lines 146-158.
Admit(s) ==
    /\ lastNav' = <<>>
    /\ matchUpdates' = <<>>
    /\ UNCHANGED <<ctxValid, earlyCancel, otherVars>>
    /\ lastResp' = <<>>
    /\ running = s
    /\ pc[s] = "admit"
    /\ IF adm[s] = "denied"
       THEN Denied(s)
       ELSE /\ hl' = clearHighlights(hl)
            /\ appliedBy' = [t \in Slots |-> {}]
            /\ currentMatches' = <<>>
            /\ currentMatchIndex' = -1
            /\ highlightElements' = {}
            /\ LET v == validateSearchPattern(sanitizeInput(query[s]))
               IN  IF v = "ok"
                   THEN /\ isSearching' = TRUE
                        /\ latest' = s
                        /\ pc' = [pc EXCEPT ![s] = "paged"]
                        /\ UNCHANGED result
                   ELSE /\ isSearching' = FALSE
                        /\ pc' = [pc EXCEPT ![s] = "rejected"]
                        /\ result' = [result EXCEPT ![s] = Failure(v)]
                        /\ UNCHANGED latest
    /\ UNCHANGED <<limiterVars, modelVars, scrollPending, query, mode, pos, adm, replies,
                   sent, running, extPc, cancelled, rlLog>>

\* search() resumes after processPage(): the fuzzy and exact loops hold no
\* await and run to the end of search(); the semantic loop starts.
Paged(s) ==
    /\ lastNav' = <<>>
    /\ matchUpdates' = <<>>
    /\ UNCHANGED <<ctxValid, earlyCancel, otherVars>>
    /\ lastResp' = <<>>
    /\ running = s
    /\ pc[s] = "paged"
    /\ IF mode[s] = "semantic"
       THEN /\ LoopHead(s, 1, currentMatches, hl)
            /\ UNCHANGED <<highlightElements, appliedBy>>
       ELSE \E R \in SUBSET Chunks :
            /\ mode[s] = "exact" /\ ~isSearching => R = {}
            /\ PostLoop(s, PushAll(currentMatches, 1, R, s), hl \cup R)
            /\ highlightElements' = highlightElements \cup R
            /\ appliedBy' = [appliedBy EXCEPT ![s] = @ \cup R]
            /\ UNCHANGED <<pos, running>>
    /\ UNCHANGED <<limiterVars, modelVars, query, mode, adm, replies, extPc, latest,
                   cancelled, rlLog>>

\* search() resumes after findSimilar() for chunk pos[s]: lines 203-211, then
\* the head of the loop for the next chunk.
Sim(s) ==
    /\ lastNav' = <<>>
    /\ matchUpdates' = <<>>
    /\ UNCHANGED <<ctxValid, earlyCancel, otherVars>>
    /\ lastResp' = <<>>
    /\ running = s
    /\ pc[s] = "sim"
    /\ \E similarity \in BOOLEAN :
        IF similarity
        THEN /\ LoopHead(s, pos[s] + 1, Append(currentMatches, Match(pos[s], s)),
                         highlight(hl, pos[s]))
             /\ highlightElements' = highlightElements \cup {pos[s]}
             /\ appliedBy' = [appliedBy EXCEPT ![s] = @ \cup {pos[s]}]
        ELSE /\ LoopHead(s, pos[s] + 1, currentMatches, hl)
             /\ UNCHANGED <<highlightElements, appliedBy>>
    /\ UNCHANGED <<limiterVars, modelVars, query, mode, adm, replies, extPc, latest,
                   cancelled, rlLog>>

\* The listener's async function resumes after search(): sendResponse with the
\* result (line 380) or, from the catch clause, with the error (line 398).
Respond(s) ==
    /\ lastNav' = <<>>
    /\ matchUpdates' = <<>>
    /\ UNCHANGED <<ctxValid, otherVars>>
    /\ running = s
    /\ pc[s] \in {"returned", "rejected"}
    /\ replies' = [replies EXCEPT ![s] = @ + 1]
    /\ lastResp' = <<s, adm[s], result[s]>>
    /\ pc' = [pc EXCEPT ![s] = "idle"]
    /\ query' = [query EXCEPT ![s] = NoQuery]
    /\ mode' = [mode EXCEPT ![s] = "semantic"]
    /\ pos' = [pos EXCEPT ![s] = 0]
    /\ adm' = [adm EXCEPT ![s] = "none"]
    /\ result' = [result EXCEPT ![s] = NoResult]
    /\ sent' = [sent EXCEPT ![s] = 0]
    /\ cancelled' = [cancelled EXCEPT ![s] = FALSE]
    /\ earlyCancel' = earlyCancel \ {s}
    /\ appliedBy' = [appliedBy EXCEPT ![s] = {}]
    /\ running' = 0
    /\ UNCHANGED <<limiterVars, sessionVars, modelVars, domVars, extPc, latest, rlLog>>

\* NEXT_MATCH / PREV_MATCH are delivered: nextMatch() / previousMatch().
Navigate(op) ==
    /\ running = 0
    /\ ctxValid
    /\ UNCHANGED <<ctxValid, earlyCancel, otherVars>>
    /\ lastNav' = <<op, currentMatchIndex>>
    /\ lastResp' = <<>>
    /\ IF Len(currentMatches) = 0
       THEN /\ matchUpdates' = NavUpdates(currentMatches, currentMatchIndex)
            /\ UNCHANGED <<currentMatchIndex, scrollPending>>
       ELSE LET i == IF op = "next"
                     THEN NextIndex(currentMatchIndex, Len(currentMatches))
                     ELSE PrevIndex(currentMatchIndex, Len(currentMatches))
            IN  /\ currentMatchIndex' = i
                /\ scrollPending' = ScrollTarget(currentMatches, i, scrollPending)
                /\ matchUpdates' = NavUpdates(currentMatches, i)
    /\ UNCHANGED <<limiterVars, currentMatches, isSearching, highlightElements,
                   modelVars, hl, slotVars, running, extPc, histVars, rlLog>>

RecvNextMatch == Navigate("next")

RecvPrevMatch == Navigate("prev")

\* CANCEL_SEARCH is delivered (lines 390-395).  A search suspended inside its
\* chunk loop is recorded as cancelled mid-run.
RecvCancel ==
    /\ lastNav' = <<>>
    /\ matchUpdates' = <<>>
    /\ UNCHANGED <<ctxValid, otherVars>>
    /\ lastResp' = <<>>
    /\ running = 0
    /\ ctxValid
    /\ isSearching' = FALSE
    /\ hl' = clearHighlights(hl)
    /\ appliedBy' = [t \in Slots |-> {}]
    /\ modelInitialized' = FALSE
    /\ cancelled' = [t \in Slots |-> cancelled[t] \/ pc[t] = "sim_load"]
    /\ earlyCancel' = earlyCancel \cup {t \in Slots : pc[t] = "init_load"}
    /\ UNCHANGED <<limiterVars, currentMatches, currentMatchIndex, highlightElements,
                   mgrInitialized, scrollPending, slotVars, running, extPc, latest,
                   rlLog>>

\* The 100 ms debounce timer of scrollToMatch fires.
ScrollTimer ==
    /\ lastNav' = <<>>
    /\ matchUpdates' = <<>>
    /\ UNCHANGED <<ctxValid, earlyCancel, otherVars>>
    /\ lastResp' = <<>>
    /\ running = 0
    /\ scrollPending # 0
    /\ hl' = scrollToMatch(hl, scrollPending)
    /\ scrollPending' = 0
    /\ UNCHANGED <<limiterVars, sessionVars, modelVars, slotVars, running, extPc,
                   histVars, rlLog>>

\* The extension is reloaded or updated while the page stays open: the content
\* script keeps running, its pending loads and timers still complete, but no
\* further message reaches its listener and chrome.runtime.sendMessage throws.
Invalidate ==
    /\ lastNav' = <<>>
    /\ matchUpdates' = <<>>
    /\ lastResp' = <<>>
    /\ running = 0
    /\ ctxValid
    /\ ctxValid' = FALSE
    /\ UNCHANGED <<earlyCancel, otherVars>>
    /\ UNCHANGED <<limiterVars, sessionVars, modelVars, domVars, slotVars, running,
                   extPc, histVars, rlLog>>

\* initializeExtension(): the load started at script evaluation ends.
ExtLoadDone(ok) ==
    /\ lastNav' = <<>>
    /\ matchUpdates' = <<>>
    /\ UNCHANGED <<ctxValid, earlyCancel, otherVars>>
    /\ lastResp' = <<>>
    /\ running = 0
    /\ extPc = "loading"
    /\ extPc' = IF ok THEN "ready" ELSE "failed"
    /\ modelInitialized' = (ok \/ modelInitialized)
    /\ mgrInitialized' = (ok \/ mgrInitialized)
    /\ UNCHANGED <<limiterVars, sessionVars, domVars, slotVars, running, histVars,
                   rlLog>>

Next ==
    \/ \E s \in Slots, q \in Queries, m \in Modes : RecvStartSearch(s, q, m)
    \/ \E s \in Slots, ok \in BOOLEAN : LoadDone(s, ok)
    \/ \E s \in Slots : InitDone(s)
    \/ \E s \in Slots : Admit(s)
    \/ \E s \in Slots : Paged(s)
    \/ \E s \in Slots : Sim(s)
    \/ \E s \in Slots : Respond(s)
    \/ RecvNextMatch
    \/ RecvPrevMatch
    \/ RecvCancel
    \/ ScrollTimer
    \/ \E ok \in BOOLEAN : ExtLoadDone(ok)
    \/ Invalidate

Spec == Init /\ [][Next]_vars

\* ------------------------------------------------- the rate limiter on its own
\* A RateLimiter(10, 1) constructed at instant 0 and called at non-decreasing
\* instants; rlLog records each tryAcquire() call: its instant and its result.
restVars == <<currentMatches, currentMatchIndex, isSearching, mgrInitialized,
              highlightElements, modelInitialized, hl, scrollPending, pc, query,
              mode, pos, adm, result, replies, sent, running, extPc, latest,
              cancelled, appliedBy, lastNav, lastResp, ctxValid, matchUpdates,
              earlyCancel>>

\* Date.now() advances to a later instant.
RLAdvance(t) ==
    /\ t > now
    /\ now' = t
    /\ UNCHANGED <<tokens, lastRefill, rlLog, restVars, otherVars>>

\* rateLimiter.tryAcquire() is called at the current instant.
RLTryAcquire ==
    /\ Len(rlLog) < MaxCalls
    /\ LET r == TryAcquire(tokens, lastRefill, now)
       IN  /\ tokens' = r.tokens
           /\ lastRefill' = r.lastRefill
           /\ rlLog' = Append(rlLog, [t |-> now, ok |-> r.ok])
    /\ UNCHANGED <<now, restVars, otherVars>>

NextRL ==
    \/ \E t \in TimeSet : RLAdvance(t)
    \/ RLTryAcquire

SpecRL == Init /\ [][NextRL]_vars

\* --------------------------------------------- the embedding cache on its own
\* model.js getTextEmbedding (the worker's getTextEmbedding is the same code):
\* the cache and the value returned for `text`; emb is what lines 136-154
\* compute for it in the engine's current state (NoEmbedding when it has no
\* token of the vocabulary and when the computation throws).
\* null, kept as the vector without components.
NoEmbedding == <<>>

\* A variant of GetTextEmbedding that caches the miss of an unembeddable text.
GetTextEmbedding_CachesNull(c, text, emb) ==
    IF text \in DOMAIN c THEN [cache |-> c, ret |-> c[text]]
    ELSE LET kept == IF Cardinality(DOMAIN c) > CacheCap THEN <<>> ELSE c
         IN  [cache |-> [x \in DOMAIN kept \cup {text} |->
                            IF x = text THEN emb ELSE kept[x]],
              ret |-> emb]

GetTextEmbedding(c, text, emb) ==
    IF text \in DOMAIN c THEN [cache |-> c, ret |-> c[text]]
    ELSE LET kept == IF Cardinality(DOMAIN c) > CacheCap THEN <<>> ELSE c
         IN  IF emb = NoEmbedding
             THEN [cache |-> kept, ret |-> NoEmbedding]
             ELSE [cache |-> [x \in DOMAIN kept \cup {text} |->
                                 IF x = text THEN emb ELSE kept[x]],
                   ret |-> emb]

\* Lines 136-154 without the cache: in an engine that is not ready,
\* wordToIndex[token] or embeddings.slice throws and the catch returns null.
Computed(e, emb) == IF e = "ready" THEN emb ELSE NoEmbedding

\* A variant of dispose that disposes the cached tensors and leaves them in
\* the cache (<<-1>> stands for a disposed tensor, which has no data).
dispose_KeepsEntries(c) == [x \in DOMAIN c |-> <<-1>>]

\* dispose(): the cache afterwards (every tensor disposed, then cleared).
dispose(c) == <<>>

sessionAll == <<limiterVars, sessionVars, domVars, modelVars, slotVars, histVars,
                running, extPc, ctxValid, lastNav, lastResp, rlLog, matchUpdates,
                earlyCancel, popupVars, bgVars, lsLog>>

\* The mean vector of the numbered text n: texts 1, 2, ... are distinct texts
\* with a token of the vocabulary, numbered in the order of their first
\* request since the cache was last disposed; 0 is a text without such a token.
NumberedEmbedding(n) == IF n = 0 THEN NoEmbedding ELSE <<n>>

\* getTextEmbedding(text) is called.
CacheGet(text) ==
    LET r == GetTextEmbedding(cache, text, Computed(engine, NumberedEmbedding(text)))
    IN  /\ cache' = r.cache
        /\ lastGet' = [text |-> text, ret |-> r.ret, engine |-> engine]
        /\ inserted' = IF text \in DOMAIN r.cache /\ text > inserted
                       THEN text ELSE inserted
        /\ UNCHANGED <<lastFind, engine>>

\* A text not requested before.
CacheNewText ==
    /\ inserted < MaxTexts
    /\ CacheGet(inserted + 1)
    /\ UNCHANGED <<sessionAll, pageVars, workerVars>>

\* The text requested last is requested again.
CacheSameText ==
    /\ inserted > 0
    /\ CacheGet(inserted)
    /\ UNCHANGED <<sessionAll, pageVars, workerVars>>

\* A text none of whose tokens is in the vocabulary.
CacheUnknownText ==
    /\ CacheGet(0)
    /\ UNCHANGED <<sessionAll, pageVars, workerVars>>

\* initialize() ends: with the vocabulary and the embeddings loaded, or with
\* the engine as it was when the fetch failed.
CacheInitialize(ok) ==
    /\ engine # "ready"
    /\ engine' = IF ok THEN "ready" ELSE engine
    /\ UNCHANGED <<cache, inserted, lastGet, lastFind, sessionAll, pageVars,
                   workerVars>>

\* SimilaritySearch.dispose().
DisposeCache ==
    /\ cache' = dispose(cache)
    /\ engine' = IF engine = "new" THEN "new" ELSE "disposed"
    /\ inserted' = 0
    /\ UNCHANGED <<lastGet, lastFind, sessionAll, pageVars, workerVars>>

NextCache ==
    \/ CacheNewText
    \/ CacheSameText
    \/ CacheUnknownText
    \/ \E ok \in BOOLEAN : CacheInitialize(ok)
    \/ DisposeCache

SpecCache == Init /\ [][NextCache]_vars

\* ------------------------------------------------- semantic matching on its own
\* Texts are sequences of words separated by single spaces.  The words are
\* chosen so that none is a substring of another (ignoring case), hence
\* String.includes / indexOf on such texts find whole words only.
Words == {"cat", "dog", "sun", "ox", "qqq", "Cat"}

\* String.prototype.toLowerCase on a word.
Lower(w) == IF w = "Cat" THEN "cat" ELSE w

\* The number of characters of a word.
WordLen(w) == IF w = "ox" THEN 2 ELSE 3

\* embeddings.json: the vocabulary's words with their embedding rows.
Embeddings ==
    [w \in {"cat", "dog", "sun", "ox"} |->
        CASE w = "cat" -> <<3, 1>>
          [] w = "dog" -> <<1, 3>>
          [] w = "sun" -> <<1, 0>>
          [] w = "ox" -> <<1, 1>>]

Cats(n) == [i \in 1..n |-> "cat"]

\* Texts of page chunks and queries of the semantic search.
SimTexts == { <<"cat">>, <<"dog">>, <<"Cat", "dog">>, <<"sun", "cat">>, <<"qqq">>,
              <<"qqq", "ox">>, <<"dog", "dog", "cat">>, Cats(10) }
SimQueries == { <<"sun">>, <<"cat">>, <<"Cat">>, <<"cat", "dog">>, <<"qqq">>,
                <<"ox">> }

LowerAll(text) == [i \in 1..Len(text) |-> Lower(text[i])]

RECURSIVE TextLen(_)
\* String.length of a text.
TextLen(text) ==
    IF text = <<>> THEN 0
    ELSE IF Len(text) = 1 THEN WordLen(text[1])
    ELSE WordLen(Head(text)) + 1 + TextLen(Tail(text))

IsToken(w) == WordLen(w) > MinTokenLen

\* tokenize(): lower-cased words longer than 2 characters.
tokenize(text) == SelectSeq(LowerAll(text), IsToken)

InVocabulary(w) == w \in DOMAIN Embeddings

RECURSIVE VecSum(_)
VecSum(toks) ==
    IF toks = <<>> THEN <<0, 0>>
    ELSE LET r == Embeddings[Head(toks)]
             s == VecSum(Tail(toks))
         IN  <<r[1] + s[1], r[2] + s[2]>>

\* The embedding getTextEmbedding computes for a text: the mean of the rows of
\* its tokens, kept here as their sum (every use is a cosine, which the
\* scaling does not change); NoEmbedding without a token of the vocabulary.
TextEmbedding(text) ==
    LET valid == SelectSeq(tokenize(text), InVocabulary)
    IN  IF valid = <<>> THEN NoEmbedding ELSE VecSum(valid)

Dot(a, b) == a[1] * b[1] + a[2] * b[2]

\* cosineSimilarity / getSimilarity: 0 when either embedding is missing, else
\* dot / sqrt(n1 * n2), kept exact as the three integers.
Zero == [dot |-> 0, n1 |-> 1, n2 |-> 1]
cosineSimilarity(e1, e2) ==
    IF e1 = NoEmbedding \/ e2 = NoEmbedding THEN Zero
    ELSE [dot |-> Dot(e1, e2), n1 |-> Dot(e1, e1), n2 |-> Dot(e2, e2)]

\* sim > num/den for a similarity sim with dot >= 0 and den > 0, exactly
\* (rounding of floats apart): dot * den / num > sqrt(n1 * n2), decided on the
\* integer part a of the left side where that suffices.
Exceeds(sim, num, den) ==
    IF num < 0 THEN TRUE
    ELSE IF num = 0 THEN sim.dot > 0
    ELSE IF num >= den THEN FALSE
    ELSE LET big == sim.n1 * sim.n2
             a == (sim.dot * den) \div num
             b == (sim.dot * den) % num
         IN  IF a * a > big THEN TRUE
             ELSE IF (a + 1) * (a + 1) <= big THEN FALSE
             ELSE 2 * a * b * num + b * b > (big - a * a) * num * num

\* The similarity threshold 0.8, as a fraction.
ThresholdNum == 4
ThresholdDen == 5
AboveThreshold(sim) == Exceeds(sim, ThresholdNum, ThresholdDen)

RECURSIVE splitIntoChunks(_)
\* splitIntoChunks(text, 50): lower-cased runs of at most 50 words.
splitIntoChunks(text) ==
    IF text = <<>> THEN <<>>
    ELSE IF Len(text) <= SubChunkWords THEN <<LowerAll(text)>>
    ELSE <<LowerAll(SubSeq(text, 1, SubChunkWords))>>
         \o splitIntoChunks(SubSeq(text, SubChunkWords + 1, Len(text)))

RECURSIVE EmbedAll(_, _)
\* chunks.map(getTextEmbedding): the cache afterwards and the embeddings.
EmbedAll(c, subs) ==
    IF subs = <<>> THEN [cache |-> c, embs |-> <<>>]
    ELSE LET g == GetTextEmbedding(c, Head(subs), TextEmbedding(Head(subs)))
             rest == EmbedAll(g.cache, Tail(subs))
         IN  [cache |-> rest.cache, embs |-> <<g.ret>> \o rest.embs]

IsEmbedding(e) == e # NoEmbedding

\* findSimilar(searchText, pageText) on an initialized model with cache c:
\* the cache afterwards and the boolean returned.
findSimilar(c, searchText, pageText) ==
    LET g == GetTextEmbedding(c, searchText, TextEmbedding(searchText))
    IN  IF g.ret = NoEmbedding THEN [cache |-> g.cache, ret |-> FALSE]
        ELSE LET all == EmbedAll(g.cache, splitIntoChunks(pageText))
                 embs == SelectSeq(all.embs, IsEmbedding)
             IN  [cache |-> all.cache,
                  ret |-> \E i \in 1..Len(embs) :
                              AboveThreshold(cosineSimilarity(g.ret, embs[i]))]

\* The words of a text as a set (new Set(text.toLowerCase().split(/\s+/))).
WordSet(text) == {Lower(text[i]) : i \in 1..Len(text)}

\* text.toLowerCase().includes(query.toLowerCase())
Includes(text, q) ==
    \E i \in 0..(Len(text) - Len(q)) :
        \A j \in 1..Len(q) : Lower(text[i + j]) = Lower(q[j])

RECURSIVE InOrderFrom(_, _, _)
\* The loop of lines 56-63: each term is found after the previous one.
InOrderFrom(text, terms, from) ==
    IF terms = <<>> THEN TRUE
    ELSE LET hits == {i \in from..Len(text) : Lower(text[i]) = Lower(Head(terms))}
         IN  hits # {} /\
             InOrderFrom(text, Tail(terms),
                         (CHOOSE i \in hits : \A k \in hits : i <= k) + 1)

Abs(x) == IF x < 0 THEN 0 - x ELSE x

\* A variant of calculateRelevanceScore that gives the ordered-term bonus to
\* queries of a single term too.
calculateRelevanceScore_AnyLength(text, q) ==
    LET qs == Cardinality(WordSet(q))
        ideal == TextLen(q) * 5
        overlap == Cardinality(WordSet(q) \cap WordSet(text))
        exact == IF Includes(text, q) THEN 4 ELSE 0
        ordered == IF InOrderFrom(text, q, 1) THEN 5 ELSE 0
    IN  [num |-> (exact + ordered) * qs * ideal + 6 * overlap * ideal
                 - 2 * Abs(TextLen(text) - ideal) * qs,
         den |-> 20 * qs * ideal]

\* calculateRelevanceScore(chunk, query, similarity) less the similarity, as
\* the fraction num / den.  In twentieths the bonuses 0.2, 0.3, 0.25 and the
\* penalty factor 0.1 are 4, 6, 5 and 2.
calculateRelevanceScore(text, q) ==
    LET qs == Cardinality(WordSet(q))
        ideal == TextLen(q) * 5
        overlap == Cardinality(WordSet(q) \cap WordSet(text))
        exact == IF Includes(text, q) THEN 4 ELSE 0
        ordered == IF Len(q) > 1 /\ InOrderFrom(text, q, 1) THEN 5 ELSE 0
    IN  [num |-> (exact + ordered) * qs * ideal + 6 * overlap * ideal
                 - 2 * Abs(TextLen(text) - ideal) * qs,
         den |-> 20 * qs * ideal]

\* calculateRelevanceScore(chunk, query, similarity) > 0.8, that is
\* similarity > 0.8 - num / den.
ScoreAboveThreshold(text, q, sim) ==
    LET adj == calculateRelevanceScore(text, q)
    IN  Exceeds(sim, (ThresholdNum * adj.den) \div ThresholdDen - adj.num, adj.den)

\* content.js, case 'semantic' (lines 202-211): the chunk is pushed when
\* findSimilar returns true.
ContentAccepts(c, q, text) == findSimilar(c, q, text).ret

\* The similarity of the whole chunk to the query (worker getSimilarity).
BaseSimilarity(q, text) == cosineSimilarity(TextEmbedding(q), TextEmbedding(text))

\* search.worker.js performSearch (lines 74-109): the chunk is pushed when it
\* passes the multi-word pre-filter and both tests.
WorkerAccepts(q, text) ==
    /\ TextEmbedding(q) # NoEmbedding
    /\ Len(q) > 1 => \E i \in 1..Len(q) : Includes(text, <<q[i]>>)
    /\ AboveThreshold(BaseSimilarity(q, text))
    /\ ScoreAboveThreshold(text, q, BaseSimilarity(q, text))

\* findSimilar(q, text) is called and its initialize() succeeds.
FindSimilarCall(q, text) ==
    LET r == findSimilar(cache, q, text)
    IN  /\ cache' = r.cache
        /\ engine' = "ready"
        /\ lastFind' = [query |-> q, text |-> text, ret |-> r.ret]
        /\ UNCHANGED <<inserted, lastGet, sessionAll, pageVars, workerVars>>

NextSim ==
    \/ \E q \in SimQueries, text \in SimTexts : FindSimilarCall(q, text)
    \/ DisposeCache

SpecSim == Init /\ [][NextSim]_vars

\* ------------------------------------------------------- a page on its own
\* processPage and the three match loops of search() on a document that no
\* other handler interleaves with.  A text unit is the sequence of the words
\* of its trimmed textContent (<<>> for a blank one); chunks and matches name
\* their units by position in the document.
Filler == [i \in 1..19 |-> "qqq"]
PageUnits == { <<>>, <<"cat">>, <<"Cat", "dog">>, <<"dog">>, Filler }
PageQueries == { <<"cat">>, <<"cat", "dog">>, <<"dog">>, <<"sun">> }

\* Fuse scores in tenths (0 is a perfect match) and the options' threshold 0.4.
FuseScores == {0, 3, 6}
FuseThreshold == 4

NoChunk == [text |-> <<>>, anchors |-> <<>>]

RECURSIVE ChunkLoop_SealsAbove(_, _, _, _, _)
\* A variant of ChunkLoop that seals the chunk when its word count exceeds
\* the threshold.
ChunkLoop_SealsAbove(units, i, cur, wordCount, chunks) ==
    IF i > Len(units) THEN [chunks |-> chunks, cur |-> cur]
    ELSE IF units[i] = <<>>
         THEN ChunkLoop_SealsAbove(units, i + 1, cur, wordCount, chunks)
    ELSE LET filled == [text |-> cur.text \o units[i],
                        anchors |-> Append(cur.anchors, i)]
             count == wordCount + Len(units[i])
         IN  IF count > ChunkWords
             THEN ChunkLoop_SealsAbove(units, i + 1, NoChunk, 0,
                                       Append(chunks, filled))
             ELSE ChunkLoop_SealsAbove(units, i + 1, filled, count, chunks)

RECURSIVE ChunkLoop(_, _, _, _, _)
\* The for loop of processPage from unit i on: the chunks pushed and the
\* chunk being filled when the loop ends.
ChunkLoop(units, i, cur, wordCount, chunks) ==
    IF i > Len(units) THEN [chunks |-> chunks, cur |-> cur]
    ELSE IF units[i] = <<>> THEN ChunkLoop(units, i + 1, cur, wordCount, chunks)
    ELSE LET filled == [text |-> cur.text \o units[i],
                        anchors |-> Append(cur.anchors, i)]
             count == wordCount + Len(units[i])
         IN  IF count >= ChunkWords
             THEN ChunkLoop(units, i + 1, NoChunk, 0, Append(chunks, filled))
             ELSE ChunkLoop(units, i + 1, filled, count, chunks)

\* A variant of processPage that does not push the chunk left unfinished.
processPage_DropsTail(units) ==
    ChunkLoop(units, 1, NoChunk, 0, <<>>).chunks

\* processPage(): the chunks of the document, each with its text and anchors.
processPage(units) ==
    LET r == ChunkLoop(units, 1, NoChunk, 0, <<>>)
    IN  IF r.cur.text # <<>> THEN Append(r.chunks, r.cur) ELSE r.chunks

RECURSIVE ExactMatches_NoEmptyTest(_, _, _, _)
\* A variant of ExactMatches that pushes a chunk whenever its text includes
\* the query.
ExactMatches_NoEmptyTest(units, chunks, q, k) ==
    IF k > Len(chunks) THEN <<>>
    ELSE LET IncludesQuery(i) == Includes(units[i], q)
             elementsToHighlight == SelectSeq(chunks[k].anchors, IncludesQuery)
         IN  (IF Includes(chunks[k].text, q)
              THEN <<[chunk |-> k, matchedElements |-> elementsToHighlight]>>
              ELSE <<>>) \o ExactMatches_NoEmptyTest(units, chunks, q, k + 1)

RECURSIVE ExactMatches(_, _, _, _)
\* case 'exact' over the chunks from k on: the matches pushed.
ExactMatches(units, chunks, q, k) ==
    IF k > Len(chunks) THEN <<>>
    ELSE LET IncludesQuery(i) == Includes(units[i], q)
             elementsToHighlight == SelectSeq(chunks[k].anchors, IncludesQuery)
         IN  (IF Includes(chunks[k].text, q) /\ elementsToHighlight # <<>>
              THEN <<[chunk |-> k, matchedElements |-> elementsToHighlight]>>
              ELSE <<>>) \o ExactMatches(units, chunks, q, k + 1)

RECURSIVE SemanticMatches_FatalChunk(_, _, _)
\* A variant of SemanticMatches whose loop ends at the first chunk without
\* an embedding.
SemanticMatches_FatalChunk(chunks, q, k) ==
    IF k > Len(chunks) THEN <<>>
    ELSE IF TextEmbedding(chunks[k].text) = NoEmbedding THEN <<>>
    ELSE (IF ContentAccepts(<<>>, q, chunks[k].text)
          THEN <<[chunk |-> k, matchedElements |-> "undefined"]>>
          ELSE <<>>) \o SemanticMatches_FatalChunk(chunks, q, k + 1)

RECURSIVE SemanticMatches(_, _, _)
\* case 'semantic' over the chunks from k on: the matches pushed.
SemanticMatches(chunks, q, k) ==
    IF k > Len(chunks) THEN <<>>
    ELSE (IF ContentAccepts(<<>>, q, chunks[k].text)
          THEN <<[chunk |-> k, matchedElements |-> "undefined"]>>
          ELSE <<>>) \o SemanticMatches(chunks, q, k + 1)

\* A variant of FuzzyMatches for a Fuse that sorts its results by score.
FuzzyMatches_Sorted(chunks, score) ==
    LET hits == {k \in 1..Len(chunks) : score[k] <= FuseThreshold}
        Before(a, b) == score[a] < score[b] \/ (score[a] = score[b] /\ a < b)
        order == CHOOSE f \in [1..Cardinality(hits) -> hits] :
                     \A i, j \in 1..Cardinality(hits) : i < j => Before(f[i], f[j])
    IN  [i \in 1..Cardinality(hits) |->
            [chunk |-> order[i], matchedElements |-> "undefined"]]

\* fuse.search() with shouldSort: false, then the loop over its results: the
\* chunks Fuse scores within the threshold, in the order of the collection.
FuzzyMatches(chunks, score) ==
    LET Hit(k) == score[k] <= FuseThreshold
        hits == SelectSeq([k \in 1..Len(chunks) |-> k], Hit)
    IN  [i \in 1..Len(hits) |-> [chunk |-> hits[i], matchedElements |-> "undefined"]]

\* The document gets its next text unit; a document with text-layer spans is
\* searched by its spans.
AddUnit(u, pdf) ==
    /\ pageRun = <<>>
    /\ Len(pageDoc.units) < MaxUnits
    /\ pageDoc.units # <<>> => pdf = pageDoc.pdf
    /\ pageDoc' = [pdf |-> pdf, units |-> Append(pageDoc.units, u)]
    /\ UNCHANGED <<pageRun, sessionAll, cacheVars, workerVars>>

\* search(q, mode) runs to its end on the document.
SearchRun(q, m, matches, score) ==
    /\ pageRun = <<>>
    /\ pageRun' = [mode |-> m, query |-> q, isPDF |-> pageDoc.pdf,
                   chunks |-> processPage(pageDoc.units),
                   matches |-> matches, score |-> score]
    /\ UNCHANGED <<pageDoc, sessionAll, cacheVars, workerVars>>

SearchExact(q) ==
    SearchRun(q, "exact",
              ExactMatches(pageDoc.units, processPage(pageDoc.units), q, 1), <<>>)

SearchSemantic(q) ==
    SearchRun(q, "semantic", SemanticMatches(processPage(pageDoc.units), q, 1), <<>>)

\* Fuse is a library: the score it gives each chunk is any of FuseScores.
SearchFuzzy(q, score) ==
    /\ DOMAIN score = 1..Len(processPage(pageDoc.units))
    /\ SearchRun(q, "fuzzy", FuzzyMatches(processPage(pageDoc.units), score), score)

\* The tab navigates to another page.
ClosePage ==
    /\ pageRun # <<>>
    /\ pageDoc' = [pdf |-> FALSE, units |-> <<>>]
    /\ pageRun' = <<>>
    /\ UNCHANGED <<sessionAll, cacheVars, workerVars>>

NextPage ==
    \/ \E u \in PageUnits, pdf \in BOOLEAN : AddUnit(u, pdf)
    \/ \E q \in PageQueries : SearchExact(q)
    \/ \E q \in PageQueries : SearchSemantic(q)
    \/ \E q \in PageQueries :
           \E score \in [1..Len(processPage(pageDoc.units)) -> FuseScores] :
               SearchFuzzy(q, score)
    \/ ClosePage

SpecPage == Init /\ [][NextPage]_vars

\* ------------------------------------------------- the search worker on its own
\* search.worker.js: self.onmessage and performSearch.  An INIT is suspended in
\* its fetch until the response arrives; a SEARCH awaits only functions that
\* never wait for an event, so it is handled and answered in one step.  wLog
\* holds, for each message received, its type, its query and chunk texts,
\* whether an exception was raised inside the search call, and the replies
\* posted for it.  The
\* embedding cache does not change a reply and is left to its own
\* specification; the results are kept as the set of the chunks pushed, each
\* with its similarity and with its score less the similarity (their order
\* by score is not modelled).
WorkerQueries == { <<"cat">>, <<"cat", "dog">>, <<"ox">>, <<"qqq">> }

\* The `chunks` of a SEARCH message: the texts of an array of chunks, or a
\* value that cannot be iterated (the field is missing).
WorkerChunks ==
    { [iterable |-> TRUE, texts |-> t] :
          t \in { << <<"cat">> >>, << <<"dog">>, <<"Cat", "dog">> >>, <<>> } }
    \cup { [iterable |-> FALSE, texts |-> <<>>] }

\* How the fetch of an INIT ends: both globals set; fetch or json() rejected;
\* a body without `vocabulary`; tensor2d throwing on the embeddings' shape.
InitOutcomes == {"ok", "fetch failed", "no vocabulary", "bad tensor"}

\* getTextEmbedding(query) in the worker: the value returned for a text absent
\* from the cache and whether an exception was caught on the way.
WorkerEmbedding(text) ==
    IF tokenize(text) = <<>> THEN [ret |-> NoEmbedding, fault |-> FALSE]
    ELSE IF ~wordToIndex THEN [ret |-> NoEmbedding, fault |-> TRUE]
    ELSE IF TextEmbedding(text) = NoEmbedding
         THEN [ret |-> NoEmbedding, fault |-> FALSE]
    ELSE IF ~wEmbeddings THEN [ret |-> NoEmbedding, fault |-> TRUE]
    ELSE [ret |-> TextEmbedding(text), fault |-> FALSE]

\* performSearch(query, chunks): the chunks pushed and whether an exception
\* was raised (and caught) inside it.
performSearch(q, chunks) ==
    LET e == WorkerEmbedding(q)
    IN  IF e.ret = NoEmbedding THEN [results |-> {}, fault |-> e.fault]
        ELSE IF ~chunks.iterable THEN [results |-> {}, fault |-> TRUE]
        ELSE [results |->
                  { [chunk |-> k,
                     similarity |-> BaseSimilarity(q, chunks.texts[k]),
                     bonus |-> calculateRelevanceScore(chunks.texts[k], q)] :
                        k \in {c \in 1..Len(chunks.texts) :
                                   WorkerAccepts(q, chunks.texts[c])} },
              fault |-> FALSE]

\* onmessage, type SEARCH: the messages posted for the outcome r of
\* performSearch.
SearchReplies(r) == <<[type |-> "SEARCH_RESULTS", results |-> r.results]>>

\* An INIT message arrives: the handler starts the fetch of the embeddings.
WorkerInit ==
    /\ Len(wLog) < MaxMsgs
    /\ wLog' = Append(wLog, [type |-> "INIT", query |-> <<>>, texts |-> <<>>,
                              fault |-> FALSE, replies |-> <<>>])
    /\ wInbox' = wInbox \cup {Len(wLog) + 1}
    /\ UNCHANGED <<wordToIndex, wEmbeddings, sessionAll, cacheVars, pageVars>>

\* The fetch of INIT k ends and the rest of the handler runs.
WorkerInitDone(k, outcome) ==
    /\ k \in wInbox
    /\ wInbox' = wInbox \ {k}
    /\ wordToIndex' = CASE outcome = "fetch failed" -> wordToIndex
                        [] outcome = "no vocabulary" -> FALSE
                        [] OTHER -> TRUE
    /\ wEmbeddings' = IF outcome = "ok" THEN TRUE ELSE wEmbeddings
    /\ wLog' = [wLog EXCEPT ![k].replies =
                   <<[type |-> IF outcome = "ok" THEN "INIT_COMPLETE" ELSE "ERROR",
                      results |-> {}]>>]
    /\ UNCHANGED <<sessionAll, cacheVars, pageVars>>

\* A SEARCH message arrives and is answered.
WorkerSearch(q, chunks) ==
    /\ Len(wLog) < MaxMsgs
    /\ LET r == performSearch(q, chunks)
       IN  wLog' = Append(wLog, [type |-> "SEARCH", query |-> q,
                                 texts |-> chunks.texts, fault |-> r.fault,
                                 replies |-> SearchReplies(r)])
    /\ UNCHANGED <<wordToIndex, wEmbeddings, wInbox, sessionAll, cacheVars, pageVars>>

NextWorker ==
    \/ WorkerInit
    \/ \E k \in 1..MaxMsgs, outcome \in InitOutcomes : WorkerInitDone(k, outcome)
    \/ \E q \in WorkerQueries, chunks \in WorkerChunks : WorkerSearch(q, chunks)

SpecWorker == Init /\ [][NextWorker]_vars

\* ------------------------------------- the popup and the content script
\* popup.js (its counters currentIndex and totalMatches) with the content
\* script behind chrome's message channels.  Each handler of the content
\* script runs as one step: the searches here are searches that run to their
\* end in the task that delivers START_SEARCH.
popupRest == <<limiterVars, isSearching, highlightElements, domVars, modelVars,
               slotVars, histVars, running, extPc, ctxValid, lastNav, lastResp,
               rlLog, matchUpdates, earlyCancel, cacheVars, pageVars, workerVars,
               bgVars, lsLog>>

PopupRequests == {"START_SEARCH", "NEXT_MATCH", "PREV_MATCH", "CANCEL_SEARCH"}

\* The callback sendResponse(body) answers the request of type req with.
Response(req, body) ==
    [type |-> "RESPONSE", request |-> req, success |-> body.success,
     currentIndex |-> body.currentIndex, totalMatches |-> body.totalMatches]

\* search(), lines 227-232.
SearchProgress(m, i) ==
    [type |-> "SEARCH_PROGRESS", count |-> Len(m), currentIndex |-> i,
     totalMatches |-> Len(m)]

\* popup.js: the counters after msg has been delivered, to the onMessage
\* listener (lines 373-382) or to the callback awaiting a response
\* (performSearch lines 270-279, the cancel handler lines 347-352,
\* navigateMatch lines 311-313).
PopupOnMessage(p, msg) ==
    IF msg.type \in {"MATCH_UPDATE", "SEARCH_PROGRESS"}
    THEN [currentIndex |-> msg.currentIndex, totalMatches |-> msg.totalMatches]
    ELSE IF msg.request = "START_SEARCH"
         THEN IF msg.success
              THEN [currentIndex |-> msg.currentIndex, totalMatches |-> msg.totalMatches]
              ELSE p
    ELSE IF msg.request = "CANCEL_SEARCH"
         THEN [currentIndex |-> 0, totalMatches |-> 0]
    ELSE p

\* The popup sends a request to the tab (performSearch, navigateMatch, the
\* cancel button).
PopupSend(req) ==
    /\ Len(toContent) + Len(toPopup) < MaxMsgs
    /\ toContent' = Append(toContent, req)
    /\ UNCHANGED <<popup, toPopup, currentMatches, currentMatchIndex, popupRest>>

\* The content script's listener handles the request delivered next (lines
\* 375-400): a START_SEARCH that is denied by the limiter or runs to its end
\* with the chunks R matching, a navigation, or CANCEL_SEARCH.
ContentHandle ==
    /\ toContent # <<>>
    /\ toContent' = Tail(toContent)
    /\ LET req == Head(toContent)
       IN  IF req = "START_SEARCH"
           THEN \E admitted \in BOOLEAN, R \in SUBSET Chunks :
                IF admitted
                THEN LET m == PushAll(<<>>, 1, R, 0)
                         i == IndexAfterLoop(m, -1)
                     IN  /\ currentMatches' = m
                         /\ currentMatchIndex' = i
                         /\ toPopup' = toPopup \o <<SearchProgress(m, i),
                                                     Response(req, Success(m, i))>>
                ELSE /\ R = {}
                     /\ toPopup' = Append(toPopup, Response(req, Failure(RateLimitError)))
                     /\ UNCHANGED <<currentMatches, currentMatchIndex>>
           ELSE IF req \in {"NEXT_MATCH", "PREV_MATCH"}
           THEN LET n == Len(currentMatches)
                    i == IF n = 0 THEN currentMatchIndex
                         ELSE IF req = "NEXT_MATCH" THEN NextIndex(currentMatchIndex, n)
                         ELSE PrevIndex(currentMatchIndex, n)
                IN  /\ currentMatchIndex' = i
                    /\ toPopup' = toPopup \o NavUpdates(currentMatches, i)
                                         \o <<Response(req, Success(<<>>, -1))>>
                    /\ UNCHANGED currentMatches
           \* CANCEL_SEARCH, lines 390-395: the match list is left as it is
           ELSE /\ toPopup' = Append(toPopup, Response(req, Success(<<>>, -1)))
                /\ UNCHANGED <<currentMatches, currentMatchIndex>>
    /\ UNCHANGED <<popup, popupRest>>

\* The message sent to the popup first is delivered.
PopupReceive ==
    /\ toPopup # <<>>
    /\ popup' = PopupOnMessage(popup, Head(toPopup))
    /\ toPopup' = Tail(toPopup)
    /\ UNCHANGED <<toContent, currentMatches, currentMatchIndex, popupRest>>

NextPopup ==
    \/ \E req \in PopupRequests : PopupSend(req)
    \/ ContentHandle
    \/ PopupReceive

SpecPopup == Init /\ [][NextPopup]_vars

\* ------------------------------------------ the background script on its own
\* background.js, the SET_LOCAL_PDF_DATA and GET_LOCAL_PDF_DATA cases of its
\* onMessage listener.  PDF data is a sequence of bytes.
PdfData == { <<>>, <<77>>, <<255, 0>>, <<1, 2, 3, 4>> }

RECURSIVE Base64(_)
\* btoa(uint8ToString(bytes)): the sextets of the encoding, 64 for the
\* padding character.
Base64(b) ==
    IF Len(b) = 0 THEN <<>>
    ELSE IF Len(b) = 1 THEN <<b[1] \div 4, (b[1] % 4) * 16, 64, 64>>
    ELSE IF Len(b) = 2
         THEN <<b[1] \div 4, (b[1] % 4) * 16 + b[2] \div 16, (b[2] % 16) * 4, 64>>
    ELSE <<b[1] \div 4, (b[1] % 4) * 16 + b[2] \div 16,
           (b[2] % 16) * 4 + b[3] \div 64, b[3] % 64>>
         \o Base64(SubSeq(b, 4, Len(b)))

\* What sendResponse was called with: {success: true}, {data}, {error}, or
\* not at all.
BgResponse(kind, data) == [kind |-> kind, data |-> data]

\* case 'SET_LOCAL_PDF_DATA' (lines 176-180) for request.data = d: with no
\* data in the request, reading byteLength of line 178 throws after the
\* assignment and no response is sent.
SetLocalPdfData(d) ==
    [localPdfData |-> d,
     response |-> IF d = NoData THEN BgResponse("none", <<>>)
                  ELSE BgResponse("success", <<>>)]

\* A variant of GetLocalPdfData that keeps the data after sending it.
GetLocalPdfData_KeepsData(d) ==
    IF d # NoData
    THEN [localPdfData |-> d, response |-> BgResponse("data", Base64(d))]
    ELSE [localPdfData |-> d, response |-> BgResponse("error", <<>>)]

\* case 'GET_LOCAL_PDF_DATA' (lines 182-192) with localPdfData = d.
GetLocalPdfData(d) ==
    IF d # NoData
    THEN [localPdfData |-> NoData, response |-> BgResponse("data", Base64(d))]
    ELSE [localPdfData |-> d, response |-> BgResponse("error", <<>>)]

bgRest == <<sessionVars, limiterVars, domVars, modelVars, slotVars, histVars,
            running, extPc, ctxValid, lastNav, lastResp, rlLog, matchUpdates,
            earlyCancel, cacheVars, pageVars, workerVars, popupVars, lsLog>>

\* SET_LOCAL_PDF_DATA is delivered.
BgSet(d) ==
    /\ Len(bgLog) < MaxRequests
    /\ LET r == SetLocalPdfData(d)
       IN  /\ localPdfData' = r.localPdfData
           /\ bgLog' = Append(bgLog, [type |-> "SET_LOCAL_PDF_DATA",
                                      response |-> r.response])
    /\ UNCHANGED bgRest

\* GET_LOCAL_PDF_DATA is delivered.
BgGet ==
    /\ Len(bgLog) < MaxRequests
    /\ LET r == GetLocalPdfData(localPdfData)
       IN  /\ localPdfData' = r.localPdfData
           /\ bgLog' = Append(bgLog, [type |-> "GET_LOCAL_PDF_DATA",
                                      response |-> r.response])
    /\ UNCHANGED bgRest

\* The browser stops the idle service worker; the script is evaluated anew
\* for the next event (line 119).
BgRestart ==
    /\ localPdfData # NoData
    /\ localPdfData' = NoData
    /\ UNCHANGED <<bgLog, bgRest>>

NextBg ==
    \/ \E d \in PdfData \cup {NoData} : BgSet(d)
    \/ BgGet
    \/ BgRestart

SpecBg == Init /\ [][NextBg]_vars

\* ------------------------------------------- the message listener on its own
\* content.js, the chrome.runtime.onMessage listener (lines 361-402): which
\* sendResponse calls it makes for a request, at once and when the search()
\* call it awaits has settled.
ListenerRequests == {"PING", "GET_SELECTION", "START_SEARCH", "NEXT_MATCH",
                     "PREV_MATCH", "CANCEL_SEARCH"}

Selections == {"", "cat"}

ManagerError == "Search manager not initialized"

\* What search() can settle with: the counts of a completed search, or one of
\* its errors.
SearchOutcomes ==
    { Success(PushAll(<<>>, 1, R, 0), IndexAfterLoop(PushAll(<<>>, 1, R, 0), -1)) :
        R \in SUBSET Chunks }
    \cup { Failure(RateLimitError), Failure(LoadError) }

\* The sendResponse calls made before the listener's task ends, for a request
\* of type req with the page's selection sel; sm: searchManager is set.  A
\* START_SEARCH handler only awaits search() in this task (line 379);
\* nextMatch, previousMatch and the cancel statements run in it (lines
\* 382-395).
ListenerSync(req, sel, sm) ==
    IF req = "PING" THEN <<[status |-> "OK"]>>
    ELSE IF req = "GET_SELECTION" THEN <<[selection |-> sel]>>
    ELSE IF ~sm THEN <<[success |-> FALSE, error |-> ManagerError]>>
    ELSE IF req = "START_SEARCH" THEN <<>>
    ELSE <<[success |-> TRUE]>>

\* A variant of ListenerAsync without the catch clause.
ListenerAsync_NoCatch(outcome) ==
    IF outcome.success THEN <<outcome>> ELSE <<>>

\* The sendResponse calls made when the awaited search() has settled: line 380
\* with the result, or line 398 from the catch clause with the error.
ListenerAsync(outcome) ==
    IF outcome.success THEN <<outcome>>
    ELSE <<[success |-> FALSE, error |-> outcome.error]>>

lsRest == <<sessionVars, limiterVars, domVars, modelVars, slotVars, histVars,
            running, extPc, ctxValid, lastNav, lastResp, rlLog, matchUpdates,
            earlyCancel, cacheVars, pageVars, workerVars, popupVars, bgVars>>

\* A request is delivered to the listener; searchManager was set when the
\* script was evaluated (line 330 runs before the first await of
\* initializeExtension).
ListenerDeliver(req, sel) ==
    /\ Len(lsLog) < MaxMsgs
    /\ (req # "GET_SELECTION") => sel = ""
    /\ lsLog' = Append(lsLog, [type |-> req,
                               awaiting |-> (req = "START_SEARCH"),
                               answers |-> ListenerSync(req, sel, TRUE)])
    /\ UNCHANGED lsRest

\* The search() call awaited for request k settles with outcome.
ListenerSearchSettles(k, outcome) ==
    /\ k <= Len(lsLog)
    /\ lsLog[k].awaiting
    /\ lsLog' = [lsLog EXCEPT ![k].awaiting = FALSE,
                             ![k].answers = @ \o ListenerAsync(outcome)]
    /\ UNCHANGED lsRest

NextListener ==
    \/ \E req \in ListenerRequests, sel \in Selections : ListenerDeliver(req, sel)
    \/ \E k \in 1..MaxMsgs, outcome \in SearchOutcomes : ListenerSearchSettles(k, outcome)

SpecListener == Init /\ [][NextListener]_vars

\* Every await of search() is a continuation of the same task or a fetch that
\* resolves or fails, so a search() call that was started settles.
FairListener ==
    /\ SpecListener
    /\ \A k \in 1..MaxMsgs :
           WF_vars(\E outcome \in SearchOutcomes : ListenerSearchSettles(k, outcome))

\* ------------------------------------------------------------------- claims

\* C1 (as claimed): in every reachable state, states in which a search is
\* suspended at an await with matches already pushed included,
\* 0 <= currentMatchIndex < currentMatches.length when currentMatches is
\* non-empty, and currentMatchIndex = -1 when it is empty.
C1_IndexInvariant ==
    IF Len(currentMatches) > 0
    THEN currentMatchIndex \in 0..(Len(currentMatches) - 1)
    ELSE currentMatchIndex = -1

\* C1 (amended): the index invariant holds in every state in which no
\* continuation of search() is executing, that is whenever a message handler
\* can observe the manager, a search suspended in the embeddings load included.
C1_IndexAtRest == running = 0 => C1_IndexInvariant

\* A search is suspended inside its chunk loop while matches are present.
C1_Witness ==
    /\ running = 0
    /\ \E s \in Slots : pc[s] = "sim_load"
    /\ Len(currentMatches) > 0
    /\ currentMatchIndex = 0

\* C2: with n > 0 matches and index i in [0, n), nextMatch sets the index to
\* (i + 1) mod n and previousMatch to (i - 1 + n) mod n; with n = 0 both leave
\* the index at -1.
C2_Navigation ==
    lastNav # <<>> =>
        LET i == lastNav[2]
            n == Len(currentMatches)
        IN  /\ (n > 0 /\ i \in 0..(n - 1)) =>
                   currentMatchIndex = IF lastNav[1] = "next"
                                       THEN (i + 1) % n
                                       ELSE (i - 1 + n) % n
            /\ n = 0 => (currentMatchIndex = i /\ currentMatchIndex = -1)

\* previousMatch has wrapped from index 0 to the last of at least two matches.
C2_Witness ==
    /\ lastNav = <<"prev", 0>>
    /\ Len(currentMatches) >= 2
    /\ currentMatchIndex = Len(currentMatches) - 1

\* C3: for every query whose sanitized form is shorter than 2 characters, no
\* step of the search() call changes rateLimiter.tokens, currentMatches or
\* currentMatchIndex, or sets isSearching.
C3_ShortQueryNoEffect ==
    [][\A s \in Slots :
        LET q == IF pc[s] = "idle" THEN query'[s] ELSE query[s]
        IN  (pc'[s] # pc[s] /\ Len(sanitizeInput(q)) < MinPatternLen) =>
                /\ tokens' = tokens
                /\ currentMatches' = currentMatches
                /\ currentMatchIndex' = currentMatchIndex
                /\ (isSearching' => isSearching)]_vars

\* The limiter has been called ten times at t = 0, then at t = 30 s, then at
\* t = 61 s.
C4_Scenario ==
    /\ Len(rlLog) = 12
    /\ \A i \in 1..10 : rlLog[i].t = 0
    /\ rlLog[11].t = 30000
    /\ rlLog[12].t = 61000

\* C4: with maxTokens = 10 and a refill window of 60 s, after 10 successful
\* tryAcquire calls at t = 0, a tryAcquire at t = 30 s is denied and a
\* following tryAcquire at t = 61 s on the same limiter is granted.
C4_DeniedThenGranted ==
    C4_Scenario =>
        /\ \A i \in 1..10 : rlLog[i].ok
        /\ ~rlLog[11].ok
        /\ rlLog[12].ok

\* C5: after construction and after any sequence of tryAcquire calls at
\* non-decreasing instants, tokens is within [0, maxTokens].
C5_TokensInRange == tokens \in 0..MaxTokens

\* A refill of two whole windows onto a bucket that still held 9 tokens: the
\* sum 9 + 20 is clamped to maxTokens before the call takes its token.
C5_Witness ==
    /\ Len(rlLog) = 2
    /\ rlLog[1].t = 0
    /\ rlLog[2].t = 121000
    /\ rlLog[2].ok
    /\ tokens = MaxTokens - 1

\* C6: when tryAcquire denies a search, search() rejects with the rate-limit
\* error, the caller gets exactly one {success: false, error} response, nothing
\* else is started, and no step of the call changes currentMatches,
\* currentMatchIndex, highlightElements, the applied highlights or isSearching,
\* or emits SEARCH_PROGRESS.
C6_DeniedLeavesSession ==
    [][\A s \in Slots :
        (pc'[s] # pc[s] /\ (adm[s] = "denied" \/ adm'[s] = "denied")) =>
            /\ UNCHANGED <<currentMatches, currentMatchIndex, highlightElements,
                           hl, isSearching, scrollPending, sent>>
            /\ \A t \in Slots \ {s} : pc'[t] = pc[t]
            /\ pc'[s] = "rejected" => result'[s] = Failure(RateLimitError)
            /\ pc'[s] = "idle" =>
                   /\ replies'[s] = 1
                   /\ lastResp' = <<s, "denied", Failure(RateLimitError)>>]_vars

\* A denied search has been answered while the session of an earlier search,
\* with its matches and highlights, is in place.
C6_Witness ==
    /\ lastResp # <<>>
    /\ lastResp[2] = "denied"
    /\ Len(currentMatches) > 0
    /\ hl # {}

\* C7: a search whose session is no longer the one started last begins no
\* further chunk, and once every call has returned currentMatches holds only
\* matches pushed by the session started last.
C7_Supersedes ==
    [][/\ \A s \in Slots : pos'[s] > pos[s] => latest = s
       /\ (\A t \in Slots : pc'[t] = "idle") =>
              \A i \in 1..Len(currentMatches') : currentMatches'[i].fresh]_vars

\* C8: once CANCEL_SEARCH has been handled while a search was inside its chunk
\* loop, that search begins no further chunk.
C8_CancelStops ==
    [][\A s \in Slots : cancelled[s] => pos'[s] <= pos[s]]_vars

\* C9: when a search cancelled mid-run has returned (and no later session was
\* started), currentMatches is empty, currentMatchIndex is -1 and the value
\* returned carries no match count.
C9_CancelDiscards ==
    \A s \in Slots :
        (pc[s] = "returned" /\ cancelled[s] /\ latest = s) =>
            /\ currentMatches = <<>>
            /\ currentMatchIndex = -1
            /\ result[s].matchCount = 0

\* C10: when a search cancelled mid-run has terminated, no element that search
\* highlighted carries the highlight class.
C10_CancelClears ==
    \A s \in Slots :
        (pc[s] \in {"returned", "rejected"} /\ cancelled[s]) =>
            appliedBy[s] \cap hl = {}

\* The search in slot s has failed by an exception thrown inside the try block
\* of search(), that is after the previous session's state was cleared.
FailedInTry(s) == pc[s] = "rejected" /\ adm[s] = "granted"

\* C11: when an exception is thrown inside search() after the session has
\* started, the error is what the caller is answered with, isSearching is
\* false, and no element the failed search highlighted carries the highlight
\* class.
C11_FailureClears ==
    \A s \in Slots :
        FailedInTry(s) =>
            /\ ~result[s].success
            /\ result[s].error # "none"
            /\ ~isSearching
            /\ appliedBy[s] \cap hl = {}

\* The search in slot s has terminated after its session had started: it
\* returned, or it failed inside the chunk loop or after it.
TerminatedAfterStart(s) ==
    \/ pc[s] = "returned"
    \/ FailedInTry(s) /\ result[s].error \in {LoadError, ContextError}

\* C19: every search that has started has emitted its final SEARCH_PROGRESS
\* event when it terminates, whether by completion, cancellation or failure
\* (in a valid extension context, where the event can be sent at all).
C19_FinalProgress ==
    \A s \in Slots : (ctxValid /\ TerminatedAfterStart(s)) => sent[s] = 1

\* C20: a NEXT_MATCH / PREV_MATCH step changes nothing of the session but the
\* index (currentMatches, highlightElements, tokens, isSearching and every
\* search call stay as they are, no SEARCH_PROGRESS is sent), sends exactly one
\* MATCH_UPDATE with the new index and the total when matches exist, and
\* sends nothing when the match list is empty.
C20_NavigationFrame ==
    [][lastNav' # <<>> =>
        /\ UNCHANGED <<currentMatches, highlightElements, tokens, lastRefill,
                       isSearching, hl, slotVars, modelVars>>
        /\ IF Len(currentMatches) = 0
           THEN matchUpdates' = <<>> /\ currentMatchIndex' = currentMatchIndex
           ELSE matchUpdates' =
                    <<[type |-> "MATCH_UPDATE",
                       currentIndex |-> currentMatchIndex',
                       totalMatches |-> Len(currentMatches)]>>]_vars

\* nextMatch has moved from the first to the second of two matches and has
\* sent its MATCH_UPDATE.
C20_Witness ==
    /\ lastNav = <<"next", 0>>
    /\ Len(currentMatches) = 2
    /\ matchUpdates = <<[type |-> "MATCH_UPDATE", currentIndex |-> 1,
                         totalMatches |-> 2]>>

\* C12: immediately after the insert of the 1001st distinct embeddable text
\* (cap 1000), the cache holds fewer entries than the cap.
C12_OverflowClears ==
    (lastGet # <<>> /\ lastGet.text = CacheCap + 1 /\ inserted = CacheCap + 1) =>
        Cardinality(DOMAIN cache) < CacheCap

\* None of the text's tokens (its words longer than 2 characters, lower-cased)
\* is in the vocabulary.
NoKnownToken(text) ==
    \A i \in 1..Len(text) :
        WordLen(text[i]) > MinTokenLen => Lower(text[i]) \notin DOMAIN Embeddings

C16_BothAboveThreshold ==
    /\ lastFind # <<>> /\ lastFind.ret =>
           /\ AboveThreshold(BaseSimilarity(lastFind.query, lastFind.text))
           /\ ScoreAboveThreshold(lastFind.text, lastFind.query,
                                  BaseSimilarity(lastFind.query, lastFind.text))
    /\ \A q \in SimQueries, x \in SimTexts :
           WorkerAccepts(q, x) =>
               /\ AboveThreshold(BaseSimilarity(q, x))
               /\ ScoreAboveThreshold(x, q, BaseSimilarity(q, x))

\* C14: the anchor lists of the chunks processPage returns, concatenated in
\* chunk order, are the document's non-blank units in document order: no unit
\* is dropped, duplicated, reordered or left out of its chunk.
C14_ChunkingPreservesUnits ==
    LET units == pageDoc.units
        NonBlank(i) == units[i] # <<>>
        RECURSIVE TextOf(_)
        TextOf(anchors) ==
            IF anchors = <<>> THEN <<>>
            ELSE units[Head(anchors)] \o TextOf(Tail(anchors))
        RECURSIVE AnchorsFrom(_)
        AnchorsFrom(k) ==
            IF k > Len(pageRun.chunks) THEN <<>>
            ELSE pageRun.chunks[k].anchors \o AnchorsFrom(k + 1)
    IN  pageRun # <<>> =>
            /\ AnchorsFrom(1) = SelectSeq([i \in 1..Len(units) |-> i], NonBlank)
            /\ \A k \in 1..Len(pageRun.chunks) :
                   /\ pageRun.chunks[k].anchors # <<>>
                   /\ pageRun.chunks[k].text = TextOf(pageRun.chunks[k].anchors)

\* A document of four units, one of them blank, has been chunked into a chunk
\* closed at 20 words and a last chunk left unfinished.
C14_Witness ==
    /\ pageRun # <<>>
    /\ pageDoc.units = <<Filler, <<"cat">>, <<>>, <<"dog">> >>
    /\ Len(pageRun.chunks) = 2
    /\ pageRun.chunks[1].anchors = <<1, 2>>
    /\ pageRun.chunks[2].anchors = <<4>>

\* C15: an Exact search of a document in which the query occurs in exactly one
\* text unit returns exactly one match, whose matchedElements is that unit
\* alone.
C15_ExactSingleUnit ==
    (pageRun # <<>> /\ pageRun.mode = "exact") =>
        \A i \in 1..Len(pageDoc.units) :
            {u \in 1..Len(pageDoc.units) : Includes(pageDoc.units[u], pageRun.query)} = {i} =>
                /\ Len(pageRun.matches) = 1
                /\ pageRun.matches[1].matchedElements = <<i>>
                /\ \E a \in 1..Len(pageRun.chunks[pageRun.matches[1].chunk].anchors) :
                       pageRun.chunks[pageRun.matches[1].chunk].anchors[a] = i

\* "cat dog" has been searched in Exact mode in a document of two chunks: the
\* first chunk's text includes it across the boundary of two units, the
\* second chunk holds the only unit that includes it.
C15_Witness ==
    /\ pageRun # <<>>
    /\ pageRun.mode = "exact"
    /\ pageRun.query = <<"cat", "dog">>
    /\ pageDoc.units = << <<"cat">>, <<"dog">>, Filler, <<"Cat", "dog">> >>
    /\ Len(pageRun.chunks) = 2
    /\ pageRun.matches = <<[chunk |-> 2, matchedElements |-> <<4>>]>>

C18_CrashIsolated ==
    \A k \in 1..Len(wLog) :
        wLog[k].type = "SEARCH" =>
            /\ Len(wLog[k].replies) = 1
            /\ wLog[k].fault => wLog[k].replies[1].type = "ERROR"

\* C21: in every reachable state the embedding cache holds at most 1000
\* entries.
C21_CacheBounded == Cardinality(DOMAIN cache) <= CacheCap

\* C22: in every state of the engine in which a vocabulary is loaded
\* (initialized, or disposed and not initialized again), getTextEmbedding
\* returns a non-null mean vector for a text with at least one token of the
\* vocabulary.
C22_NullOnlyWithoutToken ==
    (lastGet # <<>> /\ lastGet.text # 0 /\ lastGet.engine # "new") =>
        lastGet.ret # NoEmbedding

\* C23: every getTextEmbedding call returns what the uncached computation
\* returns in the engine's state; a hit leaves the cache as it is; a miss adds
\* the text with the value returned exactly when the computation succeeded;
\* and whenever a step removes an entry it removes every entry the cache had.
C23_CacheTransparent ==
    [][ /\ lastGet' # lastGet =>
            LET t == lastGet'.text
            IN  /\ lastGet'.ret = Computed(engine, NumberedEmbedding(t))
                /\ t \in DOMAIN cache => cache' = cache
                /\ t \in DOMAIN cache' <=>
                       (t \in DOMAIN cache \/ lastGet'.ret # NoEmbedding)
                /\ t \in DOMAIN cache' => cache'[t] = lastGet'.ret
                /\ DOMAIN cache' \ DOMAIN cache \subseteq {t}
        /\ \A x \in DOMAIN cache \cap DOMAIN cache' : cache'[x] = cache[x]
        /\ ~(DOMAIN cache \subseteq DOMAIN cache') =>
               DOMAIN cache \cap DOMAIN cache' = {}
      ]_vars

\* The text requested after 1001 others has been embedded: the cache was
\* cleared on the way and holds this text alone, with the value returned.
C23_Witness ==
    /\ engine = "ready"
    /\ lastGet # <<>>
    /\ lastGet.text = CacheCap + 2
    /\ lastGet.ret = NumberedEmbedding(CacheCap + 2)
    /\ DOMAIN cache = {CacheCap + 2}
    /\ cache[CacheCap + 2] = lastGet.ret

\* C30: among the tryAcquire() calls made so far, any run of calls that
\* starts and ends with an admitted call and holds more than maxTokens
\* admitted calls spans at least the refill window.
C30_WindowBound ==
    \A i, j \in 1..Len(rlLog) :
        (/\ i <= j
         /\ rlLog[i].ok
         /\ rlLog[j].ok
         /\ Cardinality({k \in i..j : rlLog[k].ok}) > MaxTokens)
            => rlLog[j].t - rlLog[i].t >= RefillTime

\* Ten calls have been admitted at instant 0 and an eleventh a full window
\* later, after a denied call at that same instant 0.
C30_Witness ==
    /\ Len(rlLog) = MaxTokens + 2
    /\ \A k \in 1..MaxTokens : rlLog[k].ok /\ rlLog[k].t = 0
    /\ ~rlLog[MaxTokens + 1].ok
    /\ rlLog[MaxTokens + 1].t = 0
    /\ rlLog[MaxTokens + 2].ok
    /\ rlLog[MaxTokens + 2].t = RefillTime

\* C24: every chunk has an anchor; the word count of every chunk but the last
\* is at least the threshold 20; the word count of every chunk without its
\* last unit is below the threshold; every non-blank unit is an anchor of a
\* chunk (the remainder is the final chunk); and the text of a chunk is the
\* trimmed texts of its units joined by single spaces.
C24_SealedAtThreshold ==
    LET units == pageDoc.units
        chunks == pageRun.chunks
        RECURSIVE Joined(_)
        Joined(anchors) ==
            IF anchors = <<>> THEN <<>>
            ELSE units[Head(anchors)] \o Joined(Tail(anchors))
        RECURSIVE WordCount(_)
        WordCount(anchors) ==
            IF anchors = <<>> THEN 0
            ELSE Len(units[Head(anchors)]) + WordCount(Tail(anchors))
        last(k) == chunks[k].anchors[Len(chunks[k].anchors)]
    IN  pageRun # <<>> =>
            /\ \A k \in 1..Len(chunks) :
                   /\ chunks[k].anchors # <<>>
                   /\ k < Len(chunks) => WordCount(chunks[k].anchors) >= ChunkWords
                   /\ WordCount(chunks[k].anchors) - Len(units[last(k)]) < ChunkWords
                   /\ chunks[k].text = Joined(chunks[k].anchors)
            /\ \A i \in 1..Len(units) :
                   units[i] # <<>> =>
                       \E k \in 1..Len(chunks) :
                           \E a \in 1..Len(chunks[k].anchors) :
                               chunks[k].anchors[a] = i

\* A chunk has been sealed by a two-word unit at 21 words, and the unit after
\* it is the final chunk of one word.
C24_Witness ==
    /\ pageRun # <<>>
    /\ pageDoc.units = << Filler, <<"Cat", "dog">>, <<"cat">> >>
    /\ Len(pageRun.chunks) = 2
    /\ Len(pageRun.chunks[1].text) = ChunkWords + 1
    /\ pageRun.chunks[2] = [text |-> <<"cat">>, anchors |-> <<3>>]

\* C25: in Exact mode a chunk is recorded as a match exactly when its text
\* includes the query, ignoring case (an occurrence across two adjacent units
\* of the chunk included), and the matchedElements recorded are exactly the
\* units of the chunk whose own text includes the query.
C25_ExactChunkTest ==
    (pageRun # <<>> /\ pageRun.mode = "exact") =>
        /\ \A k \in 1..Len(pageRun.chunks) :
               Includes(pageRun.chunks[k].text, pageRun.query) <=>
                   \E a \in 1..Len(pageRun.matches) : pageRun.matches[a].chunk = k
        /\ \A a \in 1..Len(pageRun.matches) :
               LET IncludesQuery(i) == Includes(pageDoc.units[i], pageRun.query)
               IN  pageRun.matches[a].matchedElements =
                       SelectSeq(pageRun.chunks[pageRun.matches[a].chunk].anchors,
                                 IncludesQuery)

\* C27: in a semantic search a chunk none of whose tokens is in the
\* vocabulary is not a match, and every chunk (of at most 50 words) whose
\* similarity to an embeddable query is above the threshold is a match,
\* whatever chunks come before it.
C27_UnembeddableSkipped ==
    (pageRun # <<>> /\ pageRun.mode = "semantic") =>
        \A k \in 1..Len(pageRun.chunks) :
            LET text == pageRun.chunks[k].text
                matched == \E a \in 1..Len(pageRun.matches) :
                               pageRun.matches[a].chunk = k
            IN  /\ NoKnownToken(text) => ~matched
                /\ (/\ ~NoKnownToken(pageRun.query)
                    /\ Len(text) <= SubChunkWords
                    /\ AboveThreshold(BaseSimilarity(pageRun.query, text)))
                       => matched

\* A semantic search for "cat" has run over a first chunk of 38 words without
\* any token of the vocabulary and a second chunk "cat": the second chunk is
\* its only match.
C27_Witness ==
    /\ pageRun # <<>>
    /\ pageRun.mode = "semantic"
    /\ pageRun.query = <<"cat">>
    /\ pageDoc.units = << Filler, Filler, <<"cat">> >>
    /\ Len(pageRun.chunks) = 2
    /\ NoKnownToken(pageRun.chunks[1].text)
    /\ pageRun.matches = <<[chunk |-> 2, matchedElements |-> "undefined"]>>

\* C28 (as claimed): the score of every result is the similarity plus 0.2 if
\* the chunk text includes the query, plus 0.3 * overlap / |queryWords|, less
\* 0.1 * |len(text) - 5 * len(query)| / (5 * len(query)), plus 0.25 if the
\* query's terms occur in the text in order at increasing positions, for
\* queries of a single term too.  Both sides are compared in hundredths.
C28_ScoreFormula ==
    \A n \in 1..Len(wLog) :
        wLog[n].type = "SEARCH" =>
            \A r \in wLog[n].replies[1].results :
                LET q == wLog[n].query
                    text == wLog[n].texts[r.chunk]
                    W == Cardinality({Lower(q[i]) : i \in 1..Len(q)})
                    L == 5 * TextLen(q)
                    overlap == Cardinality({Lower(q[i]) : i \in 1..Len(q)}
                                   \cap {Lower(text[i]) : i \in 1..Len(text)})
                    inOrder == \E f \in [1..Len(q) -> 1..Len(text)] :
                                   /\ \A i \in 1..Len(q) : Lower(text[f[i]]) = Lower(q[i])
                                   /\ \A i, j \in 1..Len(q) : i < j => f[i] < f[j]
                    hundredths == (IF Includes(text, q) THEN 20 * W * L ELSE 0)
                                  + 30 * overlap * L
                                  - 10 * Abs(TextLen(text) - L) * W
                                  + (IF inOrder THEN 25 * W * L ELSE 0)
                IN  r.bonus.num * (100 * W * L) = hundredths * r.bonus.den

\* C28 (amended): as claimed, except that the ordered-term bonus 0.25 is
\* given only when the query has more than one term.
C28_ScoreFormulaMultiTerm ==
    \A n \in 1..Len(wLog) :
        wLog[n].type = "SEARCH" =>
            \A r \in wLog[n].replies[1].results :
                LET q == wLog[n].query
                    text == wLog[n].texts[r.chunk]
                    W == Cardinality({Lower(q[i]) : i \in 1..Len(q)})
                    L == 5 * TextLen(q)
                    overlap == Cardinality({Lower(q[i]) : i \in 1..Len(q)}
                                   \cap {Lower(text[i]) : i \in 1..Len(text)})
                    inOrder == \E f \in [1..Len(q) -> 1..Len(text)] :
                                   /\ \A i \in 1..Len(q) : Lower(text[f[i]]) = Lower(q[i])
                                   /\ \A i, j \in 1..Len(q) : i < j => f[i] < f[j]
                    hundredths == (IF Includes(text, q) THEN 20 * W * L ELSE 0)
                                  + 30 * overlap * L
                                  - 10 * Abs(TextLen(text) - L) * W
                                  + (IF Len(q) > 1 /\ inOrder THEN 25 * W * L ELSE 0)
                IN  r.bonus.num * (100 * W * L) = hundredths * r.bonus.den

\* The worker has answered two searches on the initialized engine: "cat dog"
\* over the chunks "dog" and "Cat dog", both accepted, the second with the
\* ordered-term bonus; and "cat" over the chunk "cat", accepted without it.
C28_Witness ==
    /\ Len(wLog) = 3
    /\ wLog[2].type = "SEARCH"
    /\ wLog[2].query = <<"cat", "dog">>
    /\ {r.chunk : r \in wLog[2].replies[1].results} = {1, 2}
    /\ \E r \in wLog[2].replies[1].results :
           r.chunk = 2 /\ r.bonus.num * 100 = 67 * r.bonus.den
    /\ wLog[3].type = "SEARCH"
    /\ wLog[3].query = <<"cat">>
    /\ \E r \in wLog[3].replies[1].results :
           r.chunk = 1 /\ r.bonus.num * 100 = 42 * r.bonus.den

\* C26: when a search completes normally, currentMatchIndex is 0 if the
\* session holds at least one match and -1 otherwise, and the matchCount,
\* currentIndex and totalMatches returned are the session's
\* currentMatches.length, currentMatchIndex and currentMatches.length.
C26_CompletionIndex ==
    [][ \A s \in Slots :
            (pc[s] # "returned" /\ pc'[s] = "returned") =>
                /\ currentMatchIndex' = IF Len(currentMatches') > 0 THEN 0 ELSE -1
                /\ result'[s].success
                /\ result'[s].matchCount = Len(currentMatches')
                /\ result'[s].currentIndex = currentMatchIndex'
                /\ result'[s].totalMatches = Len(currentMatches')
      ]_vars

\* The second of two overlapping searches has completed without a match in a
\* session without matches: the index is -1 and the result says so.
C26_Witness ==
    /\ NumSlots >= 2
    /\ pc[2] = "returned"
    /\ pc[1] # "idle"
    /\ currentMatches = <<>>
    /\ currentMatchIndex = -1
    /\ result[2] = [success |-> TRUE, error |-> "none", matchCount |-> 0,
                    currentIndex |-> -1, totalMatches |-> 0]

\* C29: when the load of the embeddings a search waits for fails, the search
\* rejects with the load error; it has consumed no rate-limit token and has
\* not reached the reset of matches and highlights (it fails before the
\* admission check); and the failed load leaves the engine as it was, so a
\* later search loads again.
C29_LoadFailureBeforeStart ==
    [][ \A s \in Slots :
            (pc[s] \in {"init_load", "sim_load"} /\ pc'[s] = "rejected") =>
                /\ result'[s] = Failure(LoadError)
                /\ adm[s] = "none"
                /\ modelInitialized' = modelInitialized
                /\ UNCHANGED <<tokens, currentMatches, currentMatchIndex, hl>>
      ]_vars

\* C31: among the tryAcquire() calls made so far, a call made at least the
\* refill window after the last admitted call before it is admitted, however
\* many denied calls lie in between.
C31_ExhaustedRecovers ==
    \A i, j \in 1..Len(rlLog) :
        (/\ i < j
         /\ rlLog[i].ok
         /\ \A k \in (i + 1)..(j - 1) : ~rlLog[k].ok
         /\ rlLog[j].t - rlLog[i].t >= RefillTime)
            => rlLog[j].ok

\* C32: at most one load of the embeddings is awaited at a time (the start-up
\* initialization and the searches suspended in initialize() together), and a
\* load that completes assigns the embeddings only when the engine is not
\* already initialized.
C32_SingleLoad ==
    [][ LET Loading(p, e) ==
                Cardinality({s \in Slots : p[s] \in {"init_load", "sim_load"}})
                    + (IF e = "loading" THEN 1 ELSE 0)
            Assigns ==
                \/ extPc = "loading" /\ extPc' = "ready"
                \/ \E s \in Slots : /\ pc[s] \in {"init_load", "sim_load"}
                                    /\ pc'[s] \in {"init_wait", "sim"}
        IN  /\ Loading(pc', extPc') > Loading(pc, extPc) => Loading(pc, extPc) = 0
            /\ Assigns => ~modelInitialized
      ]_vars

\* C33: the chunk loop of a search ends before its last chunk only if a
\* CANCEL_SEARCH was handled while that search was under way (waiting in
\* initialize() or suspended inside the loop).
C33_TruncatedOnlyByCancel ==
    [][ \A s \in Slots :
            (/\ pc[s] = "sim"
             /\ pos[s] < NumChunks
             /\ pc'[s] \in {"returned", "rejected"})
                => (cancelled[s] \/ s \in earlyCancel)
      ]_vars

\* C34: once CANCEL_SEARCH has been handled while a search was still waiting
\* in initialize(), before its session started, that search begins no chunk
\* and highlights nothing.
C34_EarlyCancelTakesEffect ==
    [][ \A s \in earlyCancel :
            /\ pos'[s] <= pos[s]
            /\ appliedBy'[s] \subseteq appliedBy[s]
      ]_vars

\* C35: whenever a search is at the embedding lookups of findSimilar, the
\* engine is initialized: the embeddings were loaded after the last dispose()
\* and the cache holds no vector from before it.  This holds for a search that
\* was suspended in its loop when CANCEL_SEARCH disposed the model and for a
\* search started after it.
C35_LookupAfterReload ==
    \A s \in Slots : pc[s] = "sim" => modelInitialized

\* A search that was suspended inside its chunk loop when CANCEL_SEARCH
\* disposed the model is at its lookups again, after the reload.
C35_Witness ==
    \E s \in Slots :
        /\ cancelled[s]
        /\ pc[s] = "sim"
        /\ modelInitialized

\* C36: whenever no message between the popup and the content script is in
\* flight, the popup's totalMatches is the length of currentMatches and, when
\* there are matches, its currentIndex is currentMatchIndex (with an empty
\* list the popup shows no position).
C36_PopupAgrees ==
    (toContent = <<>> /\ toPopup = <<>>) =>
        /\ popup.totalMatches = Len(currentMatches)
        /\ Len(currentMatches) > 0 => popup.currentIndex = currentMatchIndex

\* C37: after a GET_LOCAL_PDF_DATA that was answered with data, every later
\* GET_LOCAL_PDF_DATA up to the next SET_LOCAL_PDF_DATA is answered with the
\* error.
C37_DataHandedOutOnce ==
    \A i, j \in 1..Len(bgLog) :
        (/\ i < j
         /\ bgLog[i].type = "GET_LOCAL_PDF_DATA"
         /\ bgLog[i].response.kind = "data"
         /\ bgLog[j].type = "GET_LOCAL_PDF_DATA"
         /\ \A k \in (i + 1)..(j - 1) : bgLog[k].type = "GET_LOCAL_PDF_DATA")
            => bgLog[j].response.kind = "error"

\* Data was stored, handed out, refused to a second request, stored again and
\* handed out again.
C37_Witness ==
    /\ Len(bgLog) = 5
    /\ bgLog[1].type = "SET_LOCAL_PDF_DATA"
    /\ bgLog[2] = [type |-> "GET_LOCAL_PDF_DATA",
                   response |-> BgResponse("data", Base64(<<255, 0>>))]
    /\ bgLog[3] = [type |-> "GET_LOCAL_PDF_DATA", response |-> BgResponse("error", <<>>)]
    /\ bgLog[4].type = "SET_LOCAL_PDF_DATA"
    /\ bgLog[5].response.kind = "data"

====
